---- MODULE Spec2Model ----
(***************************************************************************)
(* Model of the Geometas country quiz (src/main.py): the slug normaliser,  *)
(* the page extractor, the scrape-and-cache pipeline (scrape / load_data / *)
(* force rescrape) and the quiz session kept in st.session_state.          *)
(*                                                                         *)
(* A Python str is a sequence of one-character strings; a URL is a         *)
(* sequence of tokens whose first token tells whether it is root-relative. *)
(* A dict is a sequence of <<key, value>> pairs with distinct keys, in     *)
(* insertion order.                                                        *)
(***************************************************************************)
EXTENDS Integers, Sequences, FiniteSets, TLC

VARIABLES
    hasUnidecode,   \* TRUE iff "from unidecode import unidecode" succeeded (lines 14-22)
    COUNTRIES,      \* the country list read from countries.csv (line 35)
    file,           \* DATA_FILE on disk
    memo,           \* st.cache_data entry of load_data: {} or {dataset}
    pc,             \* position of the script run: idle, load, scrape, quiz
    click,          \* the button whose click started the run: none, submit, next
    idx,            \* scrape(): 1-based position in COUNTRIES
    scr,            \* scrape(): the dict "data" under construction
    fetched,        \* history: what fetch_html did for each country in this build
    data,           \* main(): the dataset load_data() returned to this run
    score,          \* st.session_state.score
    attempts,       \* st.session_state.attempts
    question,       \* {} or {[country, meta]}: current_country / current_meta
    show_meta,      \* st.session_state.show_meta
    guess,          \* st.session_state.guess_dropdown
    ui,             \* what the last finished run left on screen
    exc,            \* the exception that ended the last run, or "none"
    loadPath,       \* how load_data() produced its value in this run
    forced,         \* TRUE from a force rescrape until the run it started ends
    submits,        \* history: number of runs in which the Submit handler executed
    ignored,        \* history: the last finished run was started by a click on
                    \* Submit and the disabled button did not fire
    lastBuilt,      \* history: {} or {dataset returned by the last scrape()}, kept as
                    \* long as only loads and the quiz have happened since
    name,           \* slugify harness: the argument
    slugOut,        \* slugify harness: {} or {result}
    html,           \* parse_country harness: the argument
    parsed          \* parse_country harness: {} or {result}

appVars == <<hasUnidecode, COUNTRIES, file, memo, pc, click, idx, scr, fetched, data,
             score, attempts, question, show_meta, guess, ui, exc, loadPath,
             forced, submits, ignored, lastBuilt>>
slugVars == <<name, slugOut>>
parseVars == <<html, parsed>>
vars == <<appVars, slugVars, parseVars>>

-----------------------------------------------------------------------------
(* Strings *)

Whitespace == {" ", "\t"}

UpperLetters == <<"A","B","C","D","E","F","G","H","I","J","K","L","M","N","O","P","Q",
                  "R","S","T","U","V","W","X","Y","Z","Ç","É">>
LowerLetters == <<"a","b","c","d","e","f","g","h","i","j","k","l","m","n","o","p","q",
                  "r","s","t","u","v","w","x","y","z","ç","é">>

\* str.lower() on one character
LowerChar(ch) ==
    IF \E i \in 1..Len(UpperLetters) : UpperLetters[i] = ch
    THEN LowerLetters[CHOOSE i \in 1..Len(UpperLetters) : UpperLetters[i] = ch]
    ELSE ch

Lower(s) == [i \in 1..Len(s) |-> LowerChar(s[i])]

\* number of leading characters of s that lie in the set cls
RECURSIVE RunLen(_, _)
RunLen(s, cls) ==
    IF s = <<>> \/ s[1] \notin cls THEN 0 ELSE 1 + RunLen(Tail(s), cls)

Reverse(s) == [i \in 1..Len(s) |-> s[Len(s) + 1 - i]]

\* str.strip()
Strip(s) ==
    LET a == RunLen(s, Whitespace)
        b == RunLen(Reverse(s), Whitespace)
    IN IF a = Len(s) THEN <<>> ELSE SubSeq(s, a + 1, Len(s) - b)

\* re.sub(r"\s*\([^)]*\)", "", s): leftmost non-overlapping matches removed
RECURSIVE StripParens(_)
StripParens(s) ==
    IF s = <<>> THEN <<>>
    ELSE LET k == RunLen(s, Whitespace)
             rest == SubSeq(s, k + 1, Len(s))
         IN IF rest # <<>> /\ rest[1] = "(" /\ \E j \in 2..Len(rest) : rest[j] = ")"
            THEN LET j == CHOOSE j \in 2..Len(rest) :
                              /\ rest[j] = ")"
                              /\ \A m \in 2..(j - 1) : rest[m] # ")"
                 IN StripParens(SubSeq(rest, j + 1, Len(rest)))
            ELSE <<s[1]>> \o StripParens(Tail(s))

\* re.sub(r"[&·\.,]+", "", s)
RemovePunct(s) == SelectSeq(s, LAMBDA ch : ch \notin {"&", "·", ".", ","})

\* re.sub(r"[\s\-]+", "_", s)
RECURSIVE CollapseSeparators(_)
CollapseSeparators(s) ==
    IF s = <<>> THEN <<>>
    ELSE LET k == RunLen(s, Whitespace \cup {"-"})
         IN IF k > 0
            THEN <<"_">> \o CollapseSeparators(SubSeq(s, k + 1, Len(s)))
            ELSE <<s[1]>> \o CollapseSeparators(Tail(s))

\* str.replace("'", "")
DropApostrophes(s) == SelectSeq(s, LAMBDA ch : ch # "'")

-----------------------------------------------------------------------------
(* Slug normaliser, lines 14-22 and 44-58 *)

curacao_key == <<"c","u","r","a","ç","a","o">>
reunion_key == <<"r","é","u","n","i","o","n">>
usvi_key == <<"u",".","s","."," ","v","i","r","g","i","n"," ","i","s","l","a","n","d","s">>
usmoi_key == <<"u",".","s","."," ","m","i","n","o","r"," ","o","u","t","l","y","i","n","g",
               " ","i","s","l","a","n","d","s">>

SPECIAL_SLUGS ==
    << <<curacao_key, <<"c","u","r","a","a","o">> >>,
       <<reunion_key, <<"r","u","n","i","o","n">> >>,
       <<usvi_key, <<"u","s","_","v","i","r","g","i","n","_","i","s","l","a","n","d","s">> >>,
       <<usmoi_key, <<"u","s","_","m","i","n","o","r","_","o","u","t","l","y","i","n","g",
                      "_","i","s","l","a","n","d","s">> >> >>

IsSpecial(s) == \E i \in 1..Len(SPECIAL_SLUGS) : SPECIAL_SLUGS[i][1] = s

\* SPECIAL_SLUGS.get(s, s)
SpecialGet(s) ==
    IF IsSpecial(s)
    THEN SPECIAL_SLUGS[CHOOSE i \in 1..Len(SPECIAL_SLUGS) : SPECIAL_SLUGS[i][1] = s][2]
    ELSE s

\* the unidecode library on one character: ASCII is kept, accented letters
\* become their base letter
UnidecodeChar(ch) ==
    CASE ch = "ç" -> "c"
      [] ch = "é" -> "e"
      [] OTHER -> ch

\* unidecode(txt) as bound at import time: [raised, value].  With the library
\* (lib = TRUE) it transliterates; the fallback of lines 17-22 calls
\* str.maketrans with a 14-character and a 12-character string, which raises
\* ValueError on every call, before any character is translated
unidecode(lib, txt) ==
    IF lib
    THEN [raised |-> FALSE, value |-> [i \in 1..Len(txt) |-> UnidecodeChar(txt[i])]]
    ELSE [raised |-> TRUE, value |-> <<>>]

\* the argument of the override lookup: line 53
Normalised(country) == Lower(Strip(StripParens(country)))

\* lines 52-58
slugify(lib, country) ==
    LET s1 == Normalised(country)
        s2 == SpecialGet(s1)
        s3 == unidecode(lib, s2)
    IN IF s3.raised
       THEN [raised |-> TRUE, value |-> <<>>]
       ELSE [raised |-> FALSE,
             value |-> DropApostrophes(CollapseSeparators(RemovePunct(s3.value)))]

-----------------------------------------------------------------------------
(* Meta extractor, lines 38 and 67-82 *)

\* A page is [rejected, blocks]: rejected means BeautifulSoup(html, ...) raises
\* on the markup; blocks are the elements selected by div[class*='py-6'], in
\* document order.  A block is the sequence of its <a> elements, each
\* [detail, imgs, text]: detail = its href matches /metas/detail, imgs = the
\* src attributes of the <img> elements below it (<<>> for a missing src),
\* text = its text content.

BASE_URL == <<"https://www.geometas.com">>

\* the href filter dropped: every <a> of the block
AllAnchors(block) == block

\* block.find_all("a", href=re.compile(r"/metas/detail")): line 71
DetailAnchors(block) == SelectSeq(block, LAMBDA a : a.detail)

\* next((a for a in anchors if a.find("img")), None) as {} or {anchor}: line 72
ImgAnchor(anchors) ==
    IF \E i \in 1..Len(anchors) : anchors[i].imgs # <<>>
    THEN {anchors[CHOOSE i \in 1..Len(anchors) :
                     /\ anchors[i].imgs # <<>>
                     /\ \A m \in 1..(i - 1) : anchors[m].imgs = <<>>]}
    ELSE {}

\* next((a for a in anchors if not a.find("img")), None) as {} or {anchor}: line 73
TextAnchor(anchors) ==
    IF \E i \in 1..Len(anchors) : anchors[i].imgs = <<>>
    THEN {anchors[CHOOSE i \in 1..Len(anchors) :
                     /\ anchors[i].imgs = <<>>
                     /\ \A m \in 1..(i - 1) : anchors[m].imgs # <<>>]}
    ELSE {}

\* the src stored as found
ImageUrlAsFound(img_anchor) == img_anchor.imgs[1]

\* lines 76-79
ImageUrl(img_anchor) ==
    LET img_url == img_anchor.imgs[1]
    IN IF img_url # <<>> /\ img_url[1] = "/" THEN BASE_URL \o img_url ELSE img_url

\* lines 71-81 for one block: the metas it appends, <<>> or <<meta>>
BlockMetas(block) ==
    LET anchors == DetailAnchors(block)
        img_anchor == ImgAnchor(anchors)
        text_anchor == TextAnchor(anchors)
    IN IF img_anchor = {} \/ text_anchor = {}
       THEN <<>>
       ELSE LET ia == CHOOSE a \in img_anchor : TRUE
                ta == CHOOSE a \in text_anchor : TRUE
            IN << [meta |-> Strip(ta.text), image_url |-> ImageUrl(ia)] >>

RECURSIVE BlocksMetas(_)
BlocksMetas(blocks) ==
    IF blocks = <<>> THEN <<>>
    ELSE BlockMetas(blocks[1]) \o BlocksMetas(Tail(blocks))

\* lines 67-82: [raised, value]
parse_country(page) ==
    IF page.rejected
    THEN [raised |-> TRUE, value |-> <<>>]
    ELSE [raised |-> FALSE, value |-> BlocksMetas(page.blocks)]

-----------------------------------------------------------------------------
(* Python dicts and the JSON snapshot *)

DictKeys(d) == {d[i][1] : i \in 1..Len(d)}

DictGet(d, k) == d[CHOOSE i \in 1..Len(d) : d[i][1] = k][2]

\* d[k] = v: an existing key keeps its position
DictSet(d, k, v) ==
    IF k \in DictKeys(d)
    THEN [i \in 1..Len(d) |-> IF d[i][1] = k THEN <<k, v>> ELSE d[i]]
    ELSE Append(d, <<k, v>>)

\* dict equality: same keys, same values, whatever the order
DictEq(a, b) ==
    /\ DictKeys(a) = DictKeys(b)
    /\ \A k \in DictKeys(a) : DictGet(a, k) = DictGet(b, k)

NoFile == [kind |-> "absent", members |-> <<>>]
CorruptFile == [kind |-> "corrupt", members |-> <<>>]

\* the snapshot is written without the last country's entry
DumpsDropsLast(d) ==
    [kind |-> "json", members |-> IF d = <<>> THEN d ELSE SubSeq(d, 1, Len(d) - 1)]

\* json.dumps(data, indent=2) written by write_text: line 100.  The text is an
\* object whose members are the dict's items in insertion order
Dumps(d) == [kind |-> "json", members |-> d]

\* json.loads(DATA_FILE.read_text(...)): line 108.  Members are assigned one by
\* one, so a repeated key keeps its last value
RECURSIVE LoadMembers(_, _)
LoadMembers(members, acc) ==
    IF members = <<>> THEN acc
    ELSE LoadMembers(Tail(members), DictSet(acc, members[1][1], members[1][2]))

Loads(f) ==
    IF f.kind = "json"
    THEN [raised |-> FALSE, value |-> LoadMembers(f.members, <<>>)]
    ELSE [raised |-> TRUE, value |-> <<>>]

\* any(data.values()): lines 109 and 119
AnyValues(d) == \E i \in 1..Len(d) : d[i][2] # <<>>

Range(s) == {s[i] : i \in 1..Len(s)}

\* the image_url test dropped from line 124
AvailableAnyMeta(d) == {d[i][1] : i \in {j \in 1..Len(d) : d[j][2] # <<>>}}

\* line 124
Available(d) ==
    {d[i][1] : i \in {j \in 1..Len(d) :
                        /\ d[j][2] # <<>>
                        /\ \E m \in Range(d[j][2]) : m.image_url # <<>>}}

\* the image_url test dropped from line 137
ValidAnyMeta(d, country) == Range(DictGet(d, country))

\* line 137
Valid(d, country) == {m \in Range(DictGet(d, country)) : m.image_url # <<>>}

PLACEHOLDER == <<"Select a country...">>

-----------------------------------------------------------------------------
(* Environment: the country list, the site and the disk *)

MaxCountries == 2
MaxAttempts == 3

Chad == <<"C","h","a","d">>
Curacao == <<"C","u","r","a","ç","a","o">>
Reunion == <<"R","é","u","n","i","o","n">>
Fiji == <<"F","i","j","i">>
AllCountries == <<Chad, Curacao, Reunion>>

\* the lists load_countries() may return: line 35
CountryLists == {SubSeq(AllCountries, 1, n) : n \in 0..MaxCountries}

ImgRel == <<"/", "static/metas/a.jpg">>
Caption == <<" ","k","m"," ">>
ImgLink(src) == [detail |-> TRUE, imgs |-> <<src>>, text |-> <<>>]
TextLink == [detail |-> TRUE, imgs |-> <<>>, text |-> Caption]

PageGood == [rejected |-> FALSE, blocks |-> << <<ImgLink(ImgRel), TextLink>> >>]
PageNoSrc == [rejected |-> FALSE, blocks |-> << <<ImgLink(<<>>), TextLink>> >>]
PageBare == [rejected |-> FALSE, blocks |-> << <<ImgLink(ImgRel)>> >>]
PageMixed == [rejected |-> FALSE,
              blocks |-> << <<ImgLink(<<>>), TextLink>>, <<ImgLink(ImgRel), TextLink>> >>]
PageRejected == [rejected |-> TRUE, blocks |-> <<>>]
\* the pages the site may serve for a country
SitePages == {PageNoSrc, PageBare, PageMixed, PageRejected}

\* line 91
Url(slug) == BASE_URL \o <<"/metas/countries/">> \o slug \o <<"/">>

\* fetch_html(url), lines 61-64: the outcomes the network (or the HTTP cache)
\* may produce; raise_for_status and the timeout raise
fetch_html(url) ==
    {[raised |-> TRUE, page |-> PageRejected]}
        \cup {[raised |-> FALSE, page |-> p] : p \in SitePages}

\* a snapshot left by an earlier run with another country list
StaleSnapshot ==
    Dumps(<< <<Fiji, parse_country(PageGood).value>> >>)

InitialFiles == {NoFile, CorruptFile, StaleSnapshot}

-----------------------------------------------------------------------------
(* Dataset builder, lines 85-102 *)

\* the handler removed: the exception leaves the loop
ExceptExceptionEscapes(cause) == [escaped |-> cause, metas |-> <<>>]

\* lines 96-98: the handler of "except Exception"; the exception does not
\* escape and the country's entry is the empty list
ExceptException(cause) == [escaped |-> "none", metas |-> <<>>]

\* lines 92-98 for one country, given what fetch_html did
TryCountry(r) ==
    IF r.raised
    THEN ExceptException("fetch")
    ELSE LET p == parse_country(r.page)
         IN IF p.raised
            THEN ExceptException("extract")
            ELSE [escaped |-> "none", metas |-> p.value]

\* the handler warns but forgets data[country] = []
RecordEntrySkipsEmpty(d, country, metas) ==
    IF metas = <<>> THEN d ELSE DictSet(d, country, metas)

\* data[country] = metas (line 95) or data[country] = [] (line 98)
RecordEntry(d, country, metas) == DictSet(d, country, metas)

\* an exception leaves scrape(), load_data() and main(): the run ends
RunRaises(cause) ==
    /\ pc' = "idle"
    /\ click' = "none"
    /\ exc' = cause
    /\ ui' = "exception"
    /\ idx' = 0
    /\ scr' = <<>>
    /\ fetched' = <<>>
    /\ data' = <<>>
    /\ loadPath' = "none"
    /\ forced' = FALSE
    /\ UNCHANGED <<hasUnidecode, COUNTRIES, file, memo, score, attempts, question,
                   show_meta, guess, submits, ignored, lastBuilt>>

\* one iteration of the loop of lines 89-99
ScrapeStep ==
    /\ pc = "scrape"
    /\ idx <= Len(COUNTRIES)
    /\ LET country == COUNTRIES[idx]
           slug == slugify(hasUnidecode, country)
       IN IF slug.raised
          THEN RunRaises("slugify")
          ELSE \E r \in fetch_html(Url(slug.value)) :
                  LET e == TryCountry(r)
                  IN IF e.escaped # "none"
                     THEN RunRaises(e.escaped)
                     ELSE /\ scr' = RecordEntry(scr, country, e.metas)
                          /\ fetched' = DictSet(fetched, country, r)
                          /\ idx' = idx + 1
                          /\ UNCHANGED <<hasUnidecode, COUNTRIES, file, memo, pc, click,
                                         data, score, attempts, question, show_meta,
                                         guess, ui, exc, loadPath, forced, submits,
                                         ignored, lastBuilt>>
    /\ UNCHANGED <<slugVars, parseVars>>

\* load_data() calling itself again when scrape() returned nothing usable
ScrapeFinishRetriesEmpty ==
    /\ pc = "scrape"
    /\ idx > Len(COUNTRIES)
    /\ file' = Dumps(scr)
    /\ IF AnyValues(scr)
       THEN /\ data' = scr
            /\ memo' = {scr}
            /\ lastBuilt' = {scr}
            /\ loadPath' = "build"
            /\ pc' = "quiz"
            /\ UNCHANGED <<idx, scr, fetched>>
       ELSE /\ pc' = "load"
            /\ idx' = 0
            /\ scr' = <<>>
            /\ fetched' = <<>>
            /\ UNCHANGED <<data, memo, lastBuilt, loadPath>>
    /\ UNCHANGED <<hasUnidecode, COUNTRIES, click, score, attempts, question, show_meta,
                   guess, ui, exc, forced, submits, ignored>>
    /\ UNCHANGED <<slugVars, parseVars>>

\* lines 100-102, and load_data() returning scrape()'s value (line 114), which
\* st.cache_data memoises (line 104)
ScrapeFinish ==
    /\ pc = "scrape"
    /\ idx > Len(COUNTRIES)
    /\ file' = Dumps(scr)
    /\ data' = scr
    /\ memo' = {scr}
    /\ lastBuilt' = {scr}
    /\ loadPath' = "build"
    /\ pc' = "quiz"
    /\ UNCHANGED <<hasUnidecode, COUNTRIES, click, idx, scr, fetched, score, attempts,
                   question, show_meta, guess, ui, exc, forced, submits, ignored>>
    /\ UNCHANGED <<slugVars, parseVars>>

-----------------------------------------------------------------------------
(* Dataset store, lines 104-114 *)

\* the any() test dropped from line 109
FromSnapshotAnyParsed(f) ==
    IF f.kind = "absent" THEN {}
    ELSE LET parsedFile == Loads(f)
         IN IF parsedFile.raised THEN {} ELSE {parsedFile.value}

\* the body of load_data() up to line 113: the dataset it returns from the
\* snapshot, {} when it falls through to scrape()
FromSnapshot(f) ==
    IF f.kind = "absent" THEN {}
    ELSE LET parsedFile == Loads(f)
         IN IF parsedFile.raised THEN {}
            ELSE IF AnyValues(parsedFile.value) THEN {parsedFile.value} ELSE {}

\* load_data() as called at line 183
Load ==
    /\ pc = "load"
    /\ IF memo # {}
       THEN /\ data' = CHOOSE d \in memo : TRUE
            /\ loadPath' = "memo"
            /\ pc' = "quiz"
            /\ UNCHANGED <<memo, idx, scr, fetched>>
       ELSE IF FromSnapshot(file) # {}
            THEN /\ data' = CHOOSE d \in FromSnapshot(file) : TRUE
                 /\ memo' = FromSnapshot(file)
                 /\ loadPath' = "disk"
                 /\ pc' = "quiz"
                 /\ UNCHANGED <<idx, scr, fetched>>
            ELSE /\ pc' = "scrape"
                 /\ idx' = 1
                 /\ scr' = <<>>
                 /\ fetched' = <<>>
                 /\ UNCHANGED <<data, memo, loadPath>>
    /\ UNCHANGED <<hasUnidecode, COUNTRIES, file, click, score, attempts, question,
                   show_meta, guess, ui, exc, forced, submits, ignored, lastBuilt>>
    /\ UNCHANGED <<slugVars, parseVars>>

-----------------------------------------------------------------------------
(* Quiz session, lines 117-172 *)

\* the session_state keys the quiz uses
Session == [score |-> score, attempts |-> attempts, question |-> question,
            show_meta |-> show_meta, guess |-> guess]

\* the Submit button stays enabled once the answer is shown
SubmitDisabledPlaceholderOnly(g, shown) == g = PLACEHOLDER

\* line 151
submit_disabled(g, shown) == g = PLACEHOLDER \/ shown

\* line 155 left out
SubmitAttemptsKept(a) == a

\* line 155
SubmitAttempts(a) == a + 1

\* every submitted guess scores
SubmitScoreAlways(s, g, country) == s + 1

\* lines 156-157
SubmitScore(s, g, country) == IF g = country THEN s + 1 ELSE s

\* "attempts" popped with the question keys and initialised again
PopQuestionAndAttempts(sess) ==
    [sess EXCEPT !.question = {}, !.show_meta = FALSE, !.guess = PLACEHOLDER,
                 !.attempts = 0]

\* "score" popped with the question keys and initialised again
PopQuestionAndScore(sess) ==
    [sess EXCEPT !.question = {}, !.show_meta = FALSE, !.guess = PLACEHOLDER,
                 !.score = 0]

\* lines 170-171: the keys popped by "Next question"; score and attempts stay
PopQuestion(sess) ==
    [sess EXCEPT !.question = {}, !.show_meta = FALSE, !.guess = PLACEHOLDER]

\* the script run ends and the page waits for the next interaction
EndRun(screen) ==
    /\ pc' = "idle"
    /\ click' = "none"
    /\ ui' = screen
    /\ data' = <<>>
    /\ idx' = 0
    /\ scr' = <<>>
    /\ fetched' = <<>>
    /\ loadPath' = "none"
    /\ forced' = FALSE

\* st.rerun(): the run is abandoned and the script starts again, no button clicked
Rerun ==
    /\ pc' = "load"
    /\ click' = "none"
    /\ data' = <<>>
    /\ idx' = 0
    /\ scr' = <<>>
    /\ fetched' = <<>>
    /\ loadPath' = "none"

\* lines 142-172 with the question q in session_state
AskQuestion(q, shown0) ==
    LET fired == click = "submit" /\ ~submit_disabled(guess, shown0)
        shown1 == fired \/ shown0
        next_clicked == shown1 /\ click = "next"
        sess1 == [Session EXCEPT
                     !.attempts = IF fired THEN SubmitAttempts(attempts) ELSE attempts,
                     !.score = IF fired THEN SubmitScore(score, guess, q.country)
                               ELSE score,
                     !.question = {q},
                     !.show_meta = shown1]
        sess2 == IF next_clicked THEN PopQuestion(sess1) ELSE sess1
    IN /\ score' = sess2.score
       /\ attempts' = sess2.attempts
       /\ question' = sess2.question
       /\ show_meta' = sess2.show_meta
       /\ guess' = sess2.guess
       /\ submits' = IF fired THEN submits + 1 ELSE submits
       /\ ignored' = (click = "submit" /\ ~fired)
       /\ IF next_clicked
          THEN Rerun /\ UNCHANGED <<ui, forced>>
          ELSE EndRun(IF shown1 THEN "revealed" ELSE "question")
       /\ UNCHANGED <<hasUnidecode, COUNTRIES, file, memo, exc, lastBuilt>>

\* "current_country" in session_state found even when it is absent
NeedQuestionAlways(q) == TRUE

\* line 135
NeedQuestion(q) == q = {}

\* run_quiz(data) as called at line 186
RunQuiz ==
    /\ pc = "quiz"
    /\ IF ~AnyValues(data)
       THEN /\ EndRun("no_metas")
            /\ UNCHANGED <<hasUnidecode, COUNTRIES, file, memo, exc, lastBuilt,
                           score, attempts, question, show_meta, guess, submits, ignored>>
       ELSE IF Available(data) = {}
            THEN /\ EndRun("no_images")
                 /\ UNCHANGED <<hasUnidecode, COUNTRIES, file, memo, exc, lastBuilt,
                                score, attempts, question, show_meta, guess,
                                submits, ignored>>
            ELSE IF ~NeedQuestion(question)
                 THEN AskQuestion(CHOOSE q \in question : TRUE, show_meta)
                 ELSE \E country \in Available(data) :
                         IF Valid(data, country) = {}
                         THEN RunRaises("IndexError")
                         ELSE \E m \in Valid(data, country) :
                                 AskQuestion([country |-> country, meta |-> m], FALSE)
    /\ UNCHANGED <<slugVars, parseVars>>

-----------------------------------------------------------------------------
(* Interactions that start a script run of main(), lines 175-186 *)

StartRun(button) ==
    /\ pc' = "load"
    /\ click' = button
    /\ exc' = "none"
    /\ ignored' = FALSE

\* the page is opened or refreshed, or the "Show raw JSON" checkbox is toggled
Refresh ==
    /\ pc = "idle"
    /\ StartRun("none")
    /\ UNCHANGED <<hasUnidecode, COUNTRIES, file, memo, idx, scr, fetched, data, score,
                   attempts, question, show_meta, guess, ui, loadPath, forced, submits,
                   lastBuilt>>
    /\ UNCHANGED <<slugVars, parseVars>>

\* the user picks an entry of the selectbox of line 150
SelectGuess ==
    /\ pc = "idle"
    /\ ui \in {"question", "revealed"}
    /\ \E g \in {PLACEHOLDER} \cup Range(COUNTRIES) :
          /\ g # guess
          /\ guess' = g
    /\ StartRun("none")
    /\ UNCHANGED <<hasUnidecode, COUNTRIES, file, memo, idx, scr, fetched, data, score,
                   attempts, question, show_meta, ui, loadPath, forced, submits,
                   lastBuilt>>
    /\ UNCHANGED <<slugVars, parseVars>>

\* the user presses the Submit button of line 154
ClickSubmit ==
    /\ pc = "idle"
    /\ ui \in {"question", "revealed"}
    /\ attempts < MaxAttempts
    /\ StartRun("submit")
    /\ UNCHANGED <<hasUnidecode, COUNTRIES, file, memo, idx, scr, fetched, data, score,
                   attempts, question, show_meta, guess, ui, loadPath, forced, submits,
                   lastBuilt>>
    /\ UNCHANGED <<slugVars, parseVars>>

\* the user presses the "Next question" button of line 167
ClickNext ==
    /\ pc = "idle"
    /\ ui = "revealed"
    /\ StartRun("next")
    /\ UNCHANGED <<hasUnidecode, COUNTRIES, file, memo, idx, scr, fetched, data, score,
                   attempts, question, show_meta, guess, ui, loadPath, forced, submits,
                   lastBuilt>>
    /\ UNCHANGED <<slugVars, parseVars>>

\* load_data.clear() left out of the handler
ForceRescrapeKeepsMemo ==
    /\ pc = "idle"
    /\ file' = NoFile
    /\ forced' = TRUE
    /\ lastBuilt' = {}
    /\ StartRun("none")
    /\ UNCHANGED <<hasUnidecode, COUNTRIES, memo, idx, scr, fetched, data, score,
                   attempts, question, show_meta, guess, ui, loadPath, submits>>
    /\ UNCHANGED <<slugVars, parseVars>>

\* the handler also empties st.session_state
ForceRescrapeClearsSession ==
    /\ pc = "idle"
    /\ file' = NoFile
    /\ memo' = {}
    /\ forced' = TRUE
    /\ lastBuilt' = {}
    /\ score' = 0
    /\ attempts' = 0
    /\ question' = {}
    /\ show_meta' = FALSE
    /\ guess' = PLACEHOLDER
    /\ StartRun("none")
    /\ UNCHANGED <<hasUnidecode, COUNTRIES, idx, scr, fetched, data, ui, loadPath,
                   submits>>
    /\ UNCHANGED <<slugVars, parseVars>>

\* lines 177-181: the "Force rescrape" button
ForceRescrape ==
    /\ pc = "idle"
    /\ file' = NoFile
    /\ memo' = {}
    /\ forced' = TRUE
    /\ lastBuilt' = {}
    /\ StartRun("none")
    /\ UNCHANGED <<hasUnidecode, COUNTRIES, idx, scr, fetched, data, score, attempts,
                   question, show_meta, guess, ui, loadPath, submits>>
    /\ UNCHANGED <<slugVars, parseVars>>

\* line 104: the memoised value is older than ttl and is dropped
MemoExpire ==
    /\ pc = "idle"
    /\ memo # {}
    /\ memo' = {}
    /\ UNCHANGED <<hasUnidecode, COUNTRIES, file, pc, click, idx, scr, fetched, data,
                   score, attempts, question, show_meta, guess, ui, exc, loadPath,
                   forced, submits, ignored, lastBuilt>>
    /\ UNCHANGED <<slugVars, parseVars>>

\* something outside the program deletes or damages DATA_FILE
ExternalWrite ==
    /\ pc = "idle"
    /\ \E f \in {NoFile, CorruptFile} :
          /\ f # file
          /\ file' = f
    /\ lastBuilt' = {}
    /\ UNCHANGED <<hasUnidecode, COUNTRIES, memo, pc, click, idx, scr, fetched, data,
                   score, attempts, question, show_meta, guess, ui, exc, loadPath,
                   forced, submits, ignored>>
    /\ UNCHANGED <<slugVars, parseVars>>

-----------------------------------------------------------------------------
(* The application *)

HarnessIdle ==
    /\ name = <<>>
    /\ slugOut = {}
    /\ html = PageRejected
    /\ parsed = {}

AppStart ==
    /\ memo = {}
    /\ pc = "idle"
    /\ click = "none"
    /\ idx = 0
    /\ scr = <<>>
    /\ fetched = <<>>
    /\ data = <<>>
    /\ score = 0
    /\ attempts = 0
    /\ question = {}
    /\ show_meta = FALSE
    /\ guess = PLACEHOLDER
    /\ ui = "blank"
    /\ exc = "none"
    /\ loadPath = "none"
    /\ forced = FALSE
    /\ submits = 0
    /\ ignored = FALSE
    /\ lastBuilt = {}

Init ==
    /\ hasUnidecode \in BOOLEAN
    /\ COUNTRIES \in CountryLists
    /\ file \in InitialFiles
    /\ AppStart
    /\ HarnessIdle

Next ==
    \/ Refresh
    \/ SelectGuess
    \/ ClickSubmit
    \/ ClickNext
    \/ ForceRescrape
    \/ MemoExpire
    \/ ExternalWrite
    \/ Load
    \/ ScrapeStep
    \/ ScrapeFinish
    \/ RunQuiz

Spec == Init /\ [][Next]_vars

TypeOK ==
    /\ pc \in {"idle", "load", "scrape", "quiz"}
    /\ click \in {"none", "submit", "next"}
    /\ Cardinality(memo) <= 1
    /\ Cardinality(question) <= 1
    /\ score \in Nat /\ attempts \in Nat

-----------------------------------------------------------------------------
(* slugify applied to country names *)

MaxParens == 2
MaxPad == 1

UpperChar(ch) ==
    IF \E i \in 1..Len(LowerLetters) : LowerLetters[i] = ch
    THEN UpperLetters[CHOOSE i \in 1..Len(LowerLetters) : LowerLetters[i] = ch]
    ELSE ch

Upper(s) == [i \in 1..Len(s) |-> UpperChar(s[i])]

USVirginIslands ==
    <<"U",".","S","."," ","V","i","r","g","i","n"," ","I","s","l","a","n","d","s">>
USMinorOutlyingIslands ==
    <<"U",".","S","."," ","M","i","n","o","r"," ","O","u","t","l","y","i","n","g",
      " ","I","s","l","a","n","d","s">>
Bolivia == <<"B","o","l","i","v","i","a">>
GuineaBissau == <<"G","u","i","n","e","a","-","B","i","s","s","a","u">>
CoteDIvoire == <<"C","o","t","e"," ","d","'","I","v","o","i","r","e">>
AntiguaBarbuda == <<"A","n","t","i","g","u","a"," ","&"," ","B","a","r","b","u","d","a">>

DisplayNames == {Curacao, Reunion, USVirginIslands, USMinorOutlyingIslands,
                 Chad, Bolivia, GuineaBissau, CoteDIvoire, AntiguaBarbuda}

RECURSIVE Repeat(_, _)
Repeat(s, n) == IF n = 0 THEN <<>> ELSE s \o Repeat(s, n - 1)

Parenthetical == <<" ","(","S","t","a","t","e"," ","o","f",")">>

\* names as countries.csv may spell them: any case, padded, with up to
\* MaxParens parenthesised remarks, or with a remark that is never closed
SlugInputs ==
    {Repeat(<<" ">>, a) \o base \o tail \o Repeat(<<" ">>, b) :
        a \in 0..MaxPad, b \in 0..MaxPad,
        base \in UNION {{n, Lower(n), Upper(n)} : n \in DisplayNames},
        tail \in {Repeat(Parenthetical, k) : k \in 0..MaxParens} \cup {<<" ","(","x">>}}

SlugInit ==
    /\ hasUnidecode \in BOOLEAN
    /\ COUNTRIES = <<>>
    /\ file = NoFile
    /\ AppStart
    /\ name \in SlugInputs
    /\ slugOut = {}
    /\ html = PageRejected
    /\ parsed = {}

\* slugify(country) is called, as at line 90
Slugify ==
    /\ slugOut = {}
    /\ slugOut' = {slugify(hasUnidecode, name)}
    /\ UNCHANGED <<appVars, name, parseVars>>

SlugNext == Slugify

SlugSpec == SlugInit /\ [][SlugNext]_vars

-----------------------------------------------------------------------------
(* parse_country applied to pages *)

MaxAnchors == 3
MaxBlocks == 2

ImgAbs == <<"https://cdn.geometas.com/", "b.jpg">>
OtherImgLink == [detail |-> FALSE, imgs |-> <<ImgRel>>, text |-> <<>>]
OtherTextLink == [detail |-> FALSE, imgs |-> <<>>, text |-> Caption]
ImgPath == <<"static/metas/", "c.jpg">>
AnchorKinds == {ImgLink(ImgRel), ImgLink(ImgAbs), ImgLink(ImgPath), ImgLink(<<>>),
                TextLink, OtherImgLink, OtherTextLink}

RECURSIVE SeqsUpTo(_, _)
SeqsUpTo(S, n) ==
    IF n = 0 THEN {<<>>}
    ELSE LET shorter == SeqsUpTo(S, n - 1)
         IN shorter \cup {Append(s, x) : s \in shorter, x \in S}

Blocks == SeqsUpTo(AnchorKinds, MaxAnchors)

\* the blocks around the one under study
FillerBlocks == {<<ImgLink(ImgRel), TextLink>>, <<TextLink>>}

ParseInputs ==
    {PageRejected}
        \cup UNION {{[rejected |-> FALSE, blocks |-> before \o <<b>> \o after] :
                        b \in Blocks,
                        after \in SeqsUpTo(FillerBlocks, MaxBlocks - 1 - Len(before))} :
                     before \in SeqsUpTo(FillerBlocks, MaxBlocks - 1)}

ParseInit ==
    /\ hasUnidecode = TRUE
    /\ COUNTRIES = <<>>
    /\ file = NoFile
    /\ AppStart
    /\ name = <<>>
    /\ slugOut = {}
    /\ html \in ParseInputs
    /\ parsed = {}

\* parse_country(html) is called, as at line 94
ParseCountry ==
    /\ parsed = {}
    /\ parsed' = {parse_country(html)}
    /\ UNCHANGED <<appVars, slugVars, html>>

ParseNext == ParseCountry

ParseSpec == ParseInit /\ [][ParseNext]_vars

-----------------------------------------------------------------------------
(* Properties of the quiz session *)

\* the question held in session_state, when there is one
TheQuestion == CHOOSE q \in question : TRUE

\* C1: in every reachable state of a session started with score = 0 and
\* attempts = 0, 0 <= score <= attempts.
C1_ScoreWithinAttempts == 0 <= score /\ score <= attempts

\* a right and a wrong guess were scored and the session advanced
C1_Witness == score = 1 /\ attempts = 2 /\ question = {}

\* C2: attempts equals the number of submit-guess calls made so far.
C2_AttemptsCountSubmits == attempts = submits

\* two guesses were submitted, the second is on screen
C2_Witness == submits = 2 /\ pc = "idle" /\ ui = "revealed" /\ show_meta

\* no key of d has a Meta with a non-empty image reference
NoEligible(d) ==
    \A i \in 1..Len(d) : \A j \in 1..Len(d[i][2]) : d[i][2][j].image_url = <<>>

\* run_quiz is about to handle a Submit click in AwaitingGuess with a country
\* chosen in the selectbox
SubmitInAwaitingGuess ==
    /\ pc = "quiz"
    /\ click = "submit"
    /\ question # {}
    /\ ~show_meta
    /\ guess # PLACEHOLDER
    /\ ~NoEligible(data)

\* C3: a submit-guess in AwaitingGuess with a country name adds exactly 1 to
\* attempts, adds 1 to score iff the guess equals the question's country
\* (otherwise score is unchanged), and moves to Revealed in both cases.
C3_SubmitEffect ==
    [][SubmitInAwaitingGuess =>
          /\ attempts' = attempts + 1
          /\ score' = score + (IF guess = TheQuestion.country THEN 1 ELSE 0)
          /\ show_meta'
          /\ question' = question]_vars

\* a wrong guess was revealed after a right one had been scored
C3_Witness ==
    /\ pc = "idle" /\ ui = "revealed" /\ show_meta
    /\ score = 1 /\ attempts = 2
    /\ question # {} /\ guess # TheQuestion.country

\* C7: when no Dataset key has a Meta with a non-empty image reference,
\* question selection reports the empty-dataset condition and changes neither
\* the current question (none is set in NoQuestion) nor score nor attempts.
C7_EmptyDatasetReported ==
    [][(pc = "quiz" /\ NoEligible(data)) =>
          /\ ui' \in {"no_metas", "no_images"}
          /\ question' = question
          /\ show_meta' = show_meta
          /\ score' = score
          /\ attempts' = attempts]_vars

\* the error is on screen and the session has no question
C7_Witness == pc = "idle" /\ ui = "no_images" /\ question = {} /\ attempts = 0

-----------------------------------------------------------------------------
(* Properties of the builder and the store *)

\* fetch_html raised, or parse_country raised on the page
FetchOrExtractFailed(r) == r.raised \/ r.page.rejected

\* C4: fetch and extract failures never make build raise: every country whose
\* fetch or extract failed maps to the empty sequence, every other country to
\* the Metas extracted from its page, the loop goes on to the next country,
\* and the Dataset returned has an entry for each of them (all of them empty
\* when every fetch failed).
C4_FailuresTolerated ==
    /\ exc \notin {"fetch", "extract"}
    /\ pc = "scrape" => Len(fetched) = idx - 1
    /\ \A i \in 1..Len(fetched) :
          LET country == fetched[i][1]
              r == fetched[i][2]
          IN /\ country \in DictKeys(scr)
             /\ DictGet(scr, country) =
                   IF FetchOrExtractFailed(r) THEN <<>> ELSE BlocksMetas(r.page.blocks)
    /\ (pc = "quiz" /\ loadPath = "build") =>
          /\ data = scr
          /\ Len(fetched) = Len(COUNTRIES)

\* a build returned after one country failed and another one did not
C4_Witness ==
    /\ pc = "quiz" /\ loadPath = "build"
    /\ \E i, j \in 1..Len(fetched) :
          /\ fetched[i][2].raised /\ data[i][2] = <<>>
          /\ ~FetchOrExtractFailed(fetched[j][2]) /\ data[j][2] # <<>>

\* load_data() returns in this step
LoadReturns == pc \in {"load", "scrape"} /\ pc' = "quiz"

TheBuilt == CHOOSE d \in lastBuilt : TRUE

\* C5 as stated: a load() right after a successful build(), nothing having
\* touched the store in between, returns a Dataset equal to the built one,
\* for every Dataset build can produce, the all-empty one included.
C5_RoundTripAnyDataset ==
    [][(LoadReturns /\ lastBuilt # {}) => DictEq(data', TheBuilt)]_vars

\* C5 amended: the same, for every built Dataset with at least one non-empty
\* entry, and for an all-empty one as long as load's memoised value is held.
C5_RoundTrip ==
    [][(LoadReturns /\ lastBuilt # {} /\ (memo # {} \/ AnyValues(TheBuilt)))
          => DictEq(data', TheBuilt)]_vars

\* load_data() has just returned the snapshot of the last build, read from disk
C5_Witness ==
    /\ pc = "quiz" /\ loadPath = "disk"
    /\ lastBuilt = {data}
    /\ Len(data) = 2

\* C6: after a forced invalidate the snapshot is absent and the memoised load
\* is cleared, so the next load() returns neither the memoised nor the on-disk
\* Dataset but the result of a build over every country.
C6_ForcedRebuild ==
    forced =>
       /\ pc # "idle"
       /\ pc = "load" => (file = NoFile /\ memo = {})
       /\ pc = "quiz" => (loadPath = "build" /\ DictKeys(data) = Range(COUNTRIES)
                             /\ Len(fetched) = Len(COUNTRIES))

\* a forced rebuild returned during a session that had already scored
C6_Witness == forced /\ pc = "quiz" /\ loadPath = "build" /\ attempts > 0 /\ data # <<>>

\* C10: after every successful build the key set of the returned Dataset and
\* of the written snapshot is the set of names of the country list, whichever
\* countries failed.
C10_KeysAreCountries ==
    (pc = "quiz" /\ loadPath = "build") =>
       /\ DictKeys(data) = Range(COUNTRIES)
       /\ file.kind = "json"
       /\ {file.members[i][1] : i \in 1..Len(file.members)} = Range(COUNTRIES)
       /\ Len(file.members) = Cardinality(Range(COUNTRIES))

\* a build over two countries returned although every fetch had failed
C10_Witness ==
    /\ pc = "quiz" /\ loadPath = "build"
    /\ Len(COUNTRIES) = 2
    /\ \A i \in 1..Len(fetched) : fetched[i][2].raised
    /\ DictKeys(data) = Range(COUNTRIES)

-----------------------------------------------------------------------------
(* Properties of slugify and parse_country *)

\* C8: for every name whose parenthetical-stripped, trimmed, lowercased form
\* is a key of the override table, slug returns the table's value verbatim.
C8_OverrideVerbatim ==
    \A r \in slugOut :
       \A i \in 1..Len(SPECIAL_SLUGS) :
          Lower(Strip(StripParens(name))) = SPECIAL_SLUGS[i][1] =>
             (~r.raised /\ r.value = SPECIAL_SLUGS[i][2])

\* C11: slug is total: for every country name it returns a slug and never
\* raises, with the transliteration library and with the built-in fallback.
C11_SlugTotal == \A r \in slugOut : ~r.raised

\* with the unidecode library the override value does come back unchanged:
\* the four table values are fixed points of lines 55-58
OverrideVerbatimWithLibrary == hasUnidecode => C8_OverrideVerbatim

ImgLinks(block) == {i \in 1..Len(block) : block[i].detail /\ block[i].imgs # <<>>}
TextLinks(block) == {i \in 1..Len(block) : block[i].detail /\ block[i].imgs = <<>>}

ExactlyOneOfEach(block) ==
    Cardinality(ImgLinks(block)) = 1 /\ Cardinality(TextLinks(block)) = 1
AtLeastOneOfEach(block) == ImgLinks(block) # {} /\ TextLinks(block) # {}

\* C9 as stated: a Meta is emitted for a block only if its detail-view links
\* hold exactly one link with an image and exactly one without; every other
\* block is discarded without raising.
C9_ExactlyOneOfEach ==
    \A r \in parsed :
       ~html.rejected =>
          /\ ~r.raised
          /\ Len(r.value) <=
                Cardinality({i \in 1..Len(html.blocks) : ExactlyOneOfEach(html.blocks[i])})

\* C9 amended: a Meta is emitted for a block exactly when its detail-view
\* links hold at least one link with an image and at least one without (the
\* first of each is used); a block missing either kind is discarded without
\* raising.
C9_AtLeastOneOfEach ==
    \A r \in parsed :
       ~html.rejected =>
          /\ ~r.raised
          /\ Len(r.value) =
                Cardinality({i \in 1..Len(html.blocks) : AtLeastOneOfEach(html.blocks[i])})

\* a page whose only block has two image links and one text link gave a Meta
C9_Witness ==
    /\ parsed # {}
    /\ Len(html.blocks) = 1
    /\ Cardinality(ImgLinks(html.blocks[1])) = 2
    /\ Cardinality(TextLinks(html.blocks[1])) = 1
    /\ \A r \in parsed : Len(r.value) = 1

-----------------------------------------------------------------------------
(* Operations the session ignores *)

\* run_quiz handles a click on Submit outside AwaitingGuess, or a click on
\* "Next question" outside Revealed
IgnoredClick ==
    /\ pc = "quiz"
    /\ \/ click = "submit" /\ (question = {} \/ show_meta)
       \/ click = "next" /\ ~(question # {} /\ show_meta)

AdvanceInRevealed ==
    /\ pc = "quiz"
    /\ click = "next"
    /\ ~NoEligible(data)
    /\ question # {}
    /\ show_meta

\* C13: advance in Revealed moves the session to NoQuestion by discarding the
\* current question and the revealed flag and leaves score and attempts as they
\* were; no step of the program lowers score or attempts.
C13_AdvanceKeepsCounters ==
    [][/\ AdvanceInRevealed =>
             /\ question' = {}
             /\ ~show_meta'
             /\ score' = score
             /\ attempts' = attempts
       /\ score' >= score
       /\ attempts' >= attempts]_vars

\* the question has just been discarded after one wrong and one right guess
C13_Witness ==
    /\ pc = "load"
    /\ question = {}
    /\ ~show_meta
    /\ score = 1
    /\ attempts = 2

-----------------------------------------------------------------------------
(* Question selection *)

\* the question is drawn from the dataset d: its country is a key of d and its
\* Meta is one of that country's sequence
DrawnFrom(q, d) ==
    /\ q.country \in DictKeys(d)
    /\ q.meta \in Range(DictGet(d, q.country))

\* C14: in every state where a current question exists its Meta has a non-empty
\* image reference, and in the step that selects it its country is a key of the
\* dataset and its Meta an element of that country's sequence.
C14_QuestionEligible ==
    [][/\ question' # {} => TheQuestion'.meta.image_url # <<>>
       /\ (question = {} /\ question' # {}) => DrawnFrom(TheQuestion', data)]_vars

\* a question is on screen that was drawn from a country having a Meta without
\* an image as well
C14_Witness ==
    /\ pc = "idle"
    /\ ui = "question"
    /\ question # {}
    /\ \E d \in memo :
          /\ DrawnFrom(TheQuestion, d)
          /\ \E m \in Range(DictGet(d, TheQuestion.country)) : m.image_url = <<>>

\* C15: a question is selected only when none is pending: while one is pending
\* (AwaitingGuess or Revealed) no run and no submitted guess changes it; it is
\* only discarded by advance, after which a new one may be selected.
C15_QuestionKept ==
    [][question # {} =>
          \/ question' = question
          \/ question' = {} /\ AdvanceInRevealed]_vars

\* the answer of a pending question is shown, and runs since its selection
\* have loaded a dataset it could not have been drawn from
C15_Witness ==
    /\ pc = "idle"
    /\ ui = "revealed"
    /\ question # {}
    /\ show_meta
    /\ \E d \in memo : AnyValues(d) /\ ~DrawnFrom(TheQuestion, d)

-----------------------------------------------------------------------------
(* load(): snapshot or build *)

\* a snapshot file exists, parses, and has at least one non-empty entry
Usable(f) ==
    /\ f.kind # "absent"
    /\ ~Loads(f).raised
    /\ \E k \in DictKeys(Loads(f).value) : DictGet(Loads(f).value, k) # <<>>

\* load() returns the parsed snapshot and no build or fetch has run
ReturnsSnapshot ==
    /\ pc' = "quiz"
    /\ DictEq(data', Loads(file).value)
    /\ UNCHANGED <<file, scr, fetched>>

\* load() goes on to a fresh build, whose result is what it returns
ReturnsFreshBuild ==
    /\ pc' = "scrape"
    /\ idx' = 1
    /\ scr' = <<>>
    /\ exc' = "none"

\* C16 as stated: load() returns the parsed snapshot, with no build or fetch,
\* exactly when the snapshot file exists, parses and has a non-empty entry;
\* when it is absent, unparsable or all-empty, load() returns the result of a
\* fresh build.
C16_SnapshotOrBuildAlways ==
    [][pc = "load" => IF Usable(file) THEN ReturnsSnapshot ELSE ReturnsFreshBuild]_vars

\* C16 amended: when no memoised value is held, load() returns the parsed
\* snapshot, with no build or fetch, exactly when the snapshot file exists,
\* parses and has a non-empty entry, and otherwise goes on to a fresh build
\* whose result it returns, a parse failure never reaching the caller; while a
\* memoised value is held load() returns that value and neither reads the
\* snapshot nor builds.
C16_SnapshotOrBuild ==
    [][/\ (pc = "load" /\ memo = {}) =>
             IF Usable(file) THEN ReturnsSnapshot ELSE ReturnsFreshBuild
       /\ (pc = "load" /\ memo # {}) =>
             /\ pc' = "quiz"
             /\ data' \in memo
             /\ UNCHANGED <<file, scr, fetched>>
       /\ (pc = "scrape" /\ pc' = "quiz") => data' = scr]_vars

\* with nothing memoised, a snapshot whose entries are all empty has sent
\* load() into a build
C16_Witness ==
    /\ pc = "scrape"
    /\ idx = 1
    /\ memo = {}
    /\ file.kind = "json"
    /\ ~Usable(file)
    /\ Len(COUNTRIES) = 2

-----------------------------------------------------------------------------
(* Stored image references *)

\* the tokens that open an absolute locator
Origins == {BASE_URL[1], ImgAbs[1]}

Absolute(url) == url # <<>> /\ url[1] \in Origins

RootRelative(url) == url # <<>> /\ url[1] = "/"

\* the src attributes of the images inside detail-view links of the page
DetailSrcs(page) ==
    {a.imgs[1] : a \in {x \in UNION {Range(b) : b \in Range(page.blocks)} :
                           x.detail /\ x.imgs # <<>>}}

\* C17 as stated: every Meta that extract stores has an absolute image
\* reference, none is relative or empty.
C17_AllAbsolute ==
    \A r \in parsed : \A i \in 1..Len(r.value) : Absolute(r.value[i].image_url)

\* C17 amended: a root-relative src is stored with the site origin prepended and
\* any other src, an empty or missing one included, is stored as found; so no
\* stored image reference is root-relative.
C17_RootRelativeResolved ==
    \A r \in parsed : \A i \in 1..Len(r.value) :
        LET url == r.value[i].image_url
        IN /\ ~RootRelative(url)
           /\ \E src \in DetailSrcs(html) :
                 url = IF RootRelative(src) THEN BASE_URL \o src ELSE src

\* a root-relative src was stored resolved, a relative one as found
C17_Witness ==
    \E r \in parsed :
        /\ Len(r.value) = 2
        /\ r.value[1].image_url = BASE_URL \o ImgRel
        /\ r.value[2].image_url = ImgPath

-----------------------------------------------------------------------------
(* load(): one build at most *)

\* one more country has been fetched, the next in the list, for the first time
FetchesNextCountry ==
    /\ pc' = "scrape"
    /\ idx \in 1..Len(COUNTRIES)
    /\ idx' = idx + 1
    /\ COUNTRIES[idx] \notin DictKeys(fetched)
    /\ DictKeys(fetched') = DictKeys(fetched) \cup {COUNTRIES[idx]}
    /\ Len(fetched') = Len(fetched) + 1

\* load() returns what the build produced, whatever it is
ReturnsBuilt ==
    /\ pc' = "quiz"
    /\ idx > Len(COUNTRIES)
    /\ data' = scr

\* C18: every load() ends after at most one build: a build is entered from
\* load() only, fetches each country once, in list order, and when the list is
\* exhausted load() returns the dataset built, all-empty or not, to the quiz; it
\* never goes back to loading or building.
C18_AtMostOneBuild ==
    [][/\ pc = "scrape" =>
             \/ FetchesNextCountry
             \/ ReturnsBuilt
             \/ pc' = "idle" /\ exc' # "none"
       /\ pc' = "scrape" => pc \in {"load", "scrape"}
       /\ (pc = "load" /\ pc' = "scrape") => idx' = 1 /\ fetched' = <<>>
       /\ pc = "quiz" => pc' \in {"idle", "load"}]_vars

\* a build in which no country gave a Meta has been returned to the quiz, each
\* of the two countries fetched once
C18_Witness ==
    /\ pc = "quiz"
    /\ loadPath = "build"
    /\ ~AnyValues(data)
    /\ idx = 3
    /\ Len(fetched) = 2
    /\ file = Dumps(data)

-----------------------------------------------------------------------------
(* load(): the snapshot on disk *)

\* the json.dump of line 101, after the loop of lines 89-99 has ended
WritesSnapshot ==
    /\ pc = "scrape"
    /\ idx > Len(COUNTRIES)
    /\ pc' = "quiz"
    /\ file' = Dumps(scr)

\* C19: whenever load() returns by the snapshot path or by the build path, a
\* snapshot file exists and its parsed content equals the dataset returned; a
\* run writes the snapshot only in the step that ends a build, after the last
\* country has been processed.
C19_SnapshotMatchesReturned ==
    [][/\ (LoadReturns /\ loadPath' \in {"disk", "build"}) =>
             /\ file'.kind # "absent"
             /\ Loads(file') = [raised |-> FALSE, value |-> data']
       /\ (pc # "idle" /\ file' # file) => WritesSnapshot]_vars

\* load() has returned a build of two countries, one of them without Metas, and
\* the snapshot written holds both
C19_Witness ==
    /\ pc = "quiz"
    /\ loadPath = "build"
    /\ file.kind = "json"
    /\ Len(file.members) = 2
    /\ Len(data) = 2
    /\ Available(data) = {Curacao}
    /\ score = 1

-----------------------------------------------------------------------------
(* Forced invalidate and the session *)

\* the "Force rescrape" handler runs, or the load_data() call that follows it
\* (line 183) is under way
ForcedReload ==
    \/ pc = "idle" /\ forced'
    \/ forced /\ pc \in {"load", "scrape"}

\* C20: a forced invalidate and the reload of the dataset that follows it
\* leave score, attempts, the current question, the revealed flag and the
\* selected guess as they were.
C20_ForcedReloadKeepsSession ==
    [][ForcedReload => UNCHANGED <<score, attempts, question, show_meta, guess>>]_vars

\* a forced reload has returned a dataset that lacks the country of the
\* question still pending, whose answer is shown
C20_Witness ==
    /\ forced
    /\ pc = "quiz"
    /\ loadPath = "build"
    /\ question # {}
    /\ show_meta
    /\ attempts = 1
    /\ AnyValues(data)
    /\ TheQuestion.country \notin DictKeys(data)

====
